---- MODULE Spec2Model ----
(***************************************************************************)
(* spark-submit-server: the orchestration facade (Submit / Kill / Status), *)
(* the retry loop, the child processes it runs and the HTTP handlers in    *)
(* front of it, as a state machine.                                        *)
(*                                                                         *)
(* Five specifications:                                                    *)
(*   Spec       the running server: requests, background submission        *)
(*              goroutines, launcher child processes, counters;            *)
(*   RetrySpec  the function retry() on its own, for every small choice of *)
(*              its parameters and every behaviour of attemptFn;           *)
(*   HttpSpec   package httputil on its own: Wrap around any handler,      *)
(*              HandleSubmit around any Spark, Status() and Error();       *)
(*   NewSpec    startup: New on every small file system, then serve or     *)
(*              exit;                                                      *)
(*   SubmitSpec the running server under POST requests only, so that       *)
(*              several submissions run side by side.                      *)
(***************************************************************************)
EXTENDS Integers, Sequences, FiniteSets, TLC

VARIABLES
    presets,        \* Spark.presets: preset name -> configurationPreset
    spark,          \* the Spark object's binaryPath and master
    debug,          \* Spark.debug
    reqs,           \* HTTP requests, in arrival order, with their responses
    jobs,           \* the goroutines started by Submit, in start order
    procs,          \* launcher invocations (cmd.Run calls that reach fork/exec)
    retryCounter,   \* retry_total{preset}
    submitCounter,  \* spark_exec_total{preset,status}
    startFails,     \* number of launcher start failures so far (bounded)
    rt,             \* RetrySpec only: one call of retry() with a scripted attemptFn
    ut              \* HttpSpec, NewSpec: one call of the function under study;
                    \* SubmitSpec: its marker

vars == <<presets, spark, debug, reqs, jobs, procs, retryCounter, submitCounter, startFails, rt, ut>>

serverVars == <<presets, spark, debug, reqs, jobs, procs, retryCounter, submitCounter, startFails>>

---------------------------------------------------------------------------
(* Bounds of the model *)

\* HTTP requests per behaviour
MaxReqs == 1
\* launcher invocations that fail to start, per behaviour
MaxStartFail == 1
\* chunks a child process writes to stdout/stderr
MaxWrites == 2
\* RetrySpec: largest maxAttempts tried
MaxRetries == 4
\* RetrySpec: largest initialDelay / maxWait tried
MaxDelay == 3
\* RetrySpec: largest multiplier tried
MaxMult == 2
\* NewSpec: entries of the preset directory
MaxFiles == 2
\* SubmitSpec: POST requests per behaviour
MaxSubmits == 2

---------------------------------------------------------------------------
(* Program constants: the arguments of retry() in Submit *)

SubmitRetries == 10
\* 1 * time.Second, in seconds
SubmitInitialDelay == 1
SubmitMult == 2
\* 5 * time.Minute, in seconds
SubmitMaxWait == 300

StatusOK == 200
StatusBadRequest == 400
StatusForbidden == 403
StatusNotFound == 404
StatusInternalServerError == 500
StatusBadGateway == 502

---------------------------------------------------------------------------
(* Errors: an error value is its Unwrap chain, outermost first; nil is <<>> *)

NilErr == <<>>

PresetNotFoundError == <<"preset not found">>

\* fmt.Errorf(msg + ", %w", err)
ErrorfW(msg, err) == <<msg>> \o err

\* errors.Is(err, target): some error of err's Unwrap chain is target
ErrorsIs(err, target) ==
    \E i \in 1..Len(err) : SubSeq(err, i, Len(err)) = target

---------------------------------------------------------------------------
(* Process configuration and the preset registry *)

master == "k8s://m"

binaryPath == "/opt/spark/bin/spark-submit"

PresetPi ==
    [Main |-> "pi.py", Args |-> <<"100">>,
     SparkConf |-> [k \in {"spark.ns"} |-> "spark"]]

PresetEtl ==
    [Main |-> "etl.py", Args |-> <<>>,
     SparkConf |-> [k \in {"spark.ns", "spark.cores"} |->
                        IF k = "spark.ns" THEN "etl" ELSE "1"]]

\* the registries New can return here: never empty
PossibleRegistries ==
    { [n \in {"pi"} |-> PresetPi],
      [n \in {"pi", "etl"} |-> IF n = "pi" THEN PresetPi ELSE PresetEtl] }

\* label values of the counters
PresetLabels == {"pi", "etl"}

\* values of the query parameters; "" is what Query().Get returns for an absent one
PresetParams == {"", "pi", "etl"}
NamespaceParams == {"", "ns"}
NameParams == {"", "job"}

---------------------------------------------------------------------------
(* Registry load: New over a file system *)

\* file names are byte sequences, as strings.HasSuffix / strings.TrimSuffix see them
YamlSuffix == <<".", "y", "a", "m", "l">>

\* the names tried, in the byte order in which os.ReadDir lists them:
\* .yaml  etl.yaml  pi.yaml  pi.yaml.bak  pi.yml  yaml
FileNames ==
    << YamlSuffix,
       <<"e", "t", "l">> \o YamlSuffix,
       <<"p", "i">> \o YamlSuffix,
       <<"p", "i">> \o YamlSuffix \o <<".", "b", "a", "k">>,
       <<"p", "i", ".", "y", "m", "l">>,
       <<"y", "a", "m", "l">> >>

\* HasSuffix that finds the suffix anywhere in s
HasSuffixAnywhere(s, suffix) ==
    \E i \in 1..(Len(s) - Len(suffix) + 1) : SubSeq(s, i, i + Len(suffix) - 1) = suffix

\* strings.HasSuffix
HasSuffix(s, suffix) ==
    /\ Len(s) >= Len(suffix)
    /\ SubSeq(s, Len(s) - Len(suffix) + 1, Len(s)) = suffix

\* strings.TrimSuffix
TrimSuffix(s, suffix) ==
    IF HasSuffix(s, suffix) THEN SubSeq(s, 1, Len(s) - Len(suffix)) ELSE s

\* the Go string of a byte sequence
RECURSIVE String(_)
String(bytes) == IF bytes = <<>> THEN "" ELSE Head(bytes) \o String(Tail(bytes))

\* the content of a file: text that is no YAML mapping, or a YAML mapping with
\* some of the keys main, args, sparkConf
Unparsable ==
    [parses |-> FALSE, keys |-> {}, main |-> "", args |-> <<>>,
     sparkConf |-> [k \in {} |-> ""]]

Document(preset, keys) ==
    [parses |-> TRUE, keys |-> keys, main |-> preset.Main, args |-> preset.Args,
     sparkConf |-> preset.SparkConf]

Documents ==
    { Unparsable,
      Document(PresetPi, {"main", "args", "sparkConf"}),
      Document(PresetEtl, {"main", "args", "sparkConf"}),
      Document(PresetPi, {"args", "sparkConf"}) }

\* yaml.Unmarshal(rawConf, &preset): a key the document lacks leaves the zero value
Unmarshal(doc) ==
    [err |-> ~doc.parses,
     preset |-> [Main |-> IF "main" \in doc.keys THEN doc.main ELSE "",
                 Args |-> IF "args" \in doc.keys THEN doc.args ELSE <<>>,
                 SparkConf |-> IF "sparkConf" \in doc.keys THEN doc.sparkConf
                               ELSE [k \in {} |-> ""]]]

\* what a directory entry with this name can be: a directory, a file that cannot
\* be read, a readable file with one of the Documents
EntriesNamed(name) ==
    { [name |-> name, isDir |-> TRUE, readable |-> FALSE, doc |-> Unparsable],
      [name |-> name, isDir |-> FALSE, readable |-> FALSE, doc |-> Unparsable] }
    \cup { [name |-> name, isDir |-> FALSE, readable |-> TRUE, doc |-> d] :
              d \in Documents }

\* what os.ReadDir(sparkConfDir) can return: entries sorted by file name
Listings ==
    LET Pos == 1..Len(FileNames)
        Picks == UNION { [1..n -> Pos] : n \in 0..MaxFiles }
        Sorted == { p \in Picks : \A i \in 1..(Len(p) - 1) : p[i] < p[i + 1] }
    IN  UNION { { l \in [1..Len(p) -> UNION { EntriesNamed(FileNames[i]) : i \in Pos }] :
                    \A i \in 1..Len(p) : l[i].name = FileNames[p[i]] } : p \in Sorted }

\* the file systems New is run on: sparkHome missing, present without
\* bin/spark-submit, or complete; sparkConfDir missing, not listable, or listed
FileSystems ==
    { [home |-> h, confDir |-> c, files |-> <<>>] :
          h \in {"missing", "nobinary", "complete"}, c \in {"missing", "unreadable"} }
    \cup { [home |-> h, confDir |-> "listed", files |-> l] :
              h \in {"missing", "nobinary", "complete"}, l \in Listings }

\* one iteration of New's loop over the directory entries
LoadFile(file, loaded) ==
    IF file.isDir THEN loaded
    ELSE IF ~HasSuffix(file.name, YamlSuffix) THEN loaded
    ELSE IF ~file.readable THEN loaded
    ELSE IF Unmarshal(file.doc).err THEN loaded
    ELSE LET presetName == String(TrimSuffix(file.name, YamlSuffix))
         IN  [n \in DOMAIN loaded \cup {presetName} |->
                 IF n = presetName THEN Unmarshal(file.doc).preset ELSE loaded[n]]

RECURSIVE LoadFiles(_, _)
LoadFiles(files, loaded) ==
    IF files = <<>> THEN loaded
    ELSE LoadFiles(Tail(files), LoadFile(Head(files), loaded))

\* New's return values: spark is <<>> for nil, else <<the Spark object>>
NewFailed(err) == [spark |-> <<>>, err |-> err]

\* New without the check of len(spark.presets)
NewAllowsEmpty(fs, dbg) ==
    IF fs.home = "missing"
    THEN NewFailed(<<"directory for spark home found">>)
    ELSE IF fs.confDir = "missing"
    THEN NewFailed(<<"directory for spark configuration presets not found">>)
    ELSE IF fs.confDir = "unreadable"
    THEN NewFailed(ErrorfW("error reading preset directory", <<"readdir">>))
    ELSE [spark |-> << [presets |-> LoadFiles(fs.files, [n \in {} |-> PresetPi]),
                        binaryPath |-> binaryPath, master |-> master, debug |-> dbg] >>,
          err |-> NilErr]

\* New without the os.Stat of sparkHome
NewNoHomeCheck(fs, dbg) ==
    IF fs.confDir = "missing"
    THEN NewFailed(<<"directory for spark configuration presets not found">>)
    ELSE IF fs.confDir = "unreadable"
    THEN NewFailed(ErrorfW("error reading preset directory", <<"readdir">>))
    ELSE LET loaded == LoadFiles(fs.files, [n \in {} |-> PresetPi])
         IN  IF DOMAIN loaded = {}
             THEN NewFailed(<<"no presets found">>)
             ELSE [spark |-> << [presets |-> loaded, binaryPath |-> binaryPath,
                                 master |-> master, debug |-> dbg] >>,
                   err |-> NilErr]

\* New(sparkHome, sparkConfDir, master, debug) on the file system fs
New(fs, dbg) ==
    IF fs.home = "missing"
    THEN NewFailed(<<"directory for spark home found">>)
    ELSE IF fs.confDir = "missing"
    THEN NewFailed(<<"directory for spark configuration presets not found">>)
    ELSE IF fs.confDir = "unreadable"
    THEN NewFailed(ErrorfW("error reading preset directory", <<"readdir">>))
    ELSE LET loaded == LoadFiles(fs.files, [n \in {} |-> PresetPi])
         IN  IF DOMAIN loaded = {}
             THEN NewFailed(<<"no presets found">>)
             ELSE [spark |-> << [presets |-> loaded, binaryPath |-> binaryPath,
                                 master |-> master, debug |-> dbg] >>,
                   err |-> NilErr]

---------------------------------------------------------------------------
(* Command builder *)

\* the orders in which `range preset.SparkConf` can visit the keys
ConfOrders(conf) ==
    LET K == DOMAIN conf
    IN  { s \in [1..Cardinality(K) -> K] :
            \A i, j \in 1..Cardinality(K) : i # j => s[i] # s[j] }

\* submitArgs without the `ok` check of the map lookup: an unknown name yields the
\* zero configurationPreset
submitArgsNoOkCheck(presetName, order) ==
    LET preset == IF presetName \in DOMAIN presets THEN presets[presetName]
                  ELSE [Main |-> "", Args |-> <<>>, SparkConf |-> [k \in {} |-> ""]]
    IN  [args |-> <<"--master=" \o spark.master,
                    "--deploy-mode=cluster",
                    "--name=" \o presetName>>
                  \o [i \in 1..Len(order) |->
                         "--conf=" \o order[i] \o "=" \o preset.SparkConf[order[i]]]
                  \o <<preset.Main>>
                  \o preset.Args,
         err |-> NilErr]

\* submitArgs appending the main target after the application arguments
submitArgsMainLast(presetName, order) ==
    IF presetName \notin DOMAIN presets
    THEN [args |-> <<>>, err |-> PresetNotFoundError]
    ELSE LET preset == presets[presetName]
         IN  [args |-> <<"--master=" \o spark.master,
                         "--deploy-mode=cluster",
                         "--name=" \o presetName>>
                       \o [i \in 1..Len(order) |->
                              "--conf=" \o order[i] \o "=" \o preset.SparkConf[order[i]]]
                       \o preset.Args
                       \o <<preset.Main>>,
              err |-> NilErr]

submitArgs(presetName, order) ==
    IF presetName \notin DOMAIN presets
    THEN [args |-> <<>>, err |-> PresetNotFoundError]
    ELSE LET preset == presets[presetName]
         IN  [args |-> <<"--master=" \o spark.master,
                         "--deploy-mode=cluster",
                         "--name=" \o presetName>>
                       \o [i \in 1..Len(order) |->
                              "--conf=" \o order[i] \o "=" \o preset.SparkConf[order[i]]]
                       \o <<preset.Main>>
                       \o preset.Args,
              err |-> NilErr]

\* buildArgs with namespace and name in the wrong order
buildArgsSwapped(kind, namespace, name) ==
    <<"--master=" \o spark.master, "--" \o kind \o "=" \o name \o ":" \o namespace>>

buildArgs(kind, namespace, name) ==
    <<"--master=" \o spark.master, "--" \o kind \o "=" \o namespace \o ":" \o name>>

---------------------------------------------------------------------------
(* The retry loop, as the steps of one call of retry() *)

RetriesExceeded == <<"retries exceeded">>

\* state on entry: delay := initialDelay; try := 0
RetryInit(retries, initialDelay, mult, maxWait) ==
    [retries |-> retries, initialDelay |-> initialDelay, delay |-> initialDelay,
     mult |-> mult, maxWait |-> maxWait,
     try |-> 0, pc |-> "loop", result |-> NilErr,
     calls |-> 0, sleeps |-> <<>>]

\* RetryLoop with the loop condition `try <= retries`
RetryLoopOffByOne(rs) ==
    IF rs.try <= rs.retries
    THEN [rs EXCEPT !.pc = "fn", !.calls = @ + 1]
    ELSE [rs EXCEPT !.pc = "done", !.result = RetriesExceeded]

\* the loop condition `try < retries`: call fn, or leave the loop and return the error
RetryLoop(rs) ==
    IF rs.try < rs.retries
    THEN [rs EXCEPT !.pc = "fn", !.calls = @ + 1]
    ELSE [rs EXCEPT !.pc = "done", !.result = RetriesExceeded]

\* RetryFnReturned without the `return nil` on success
RetryFnReturnedNoStop(rs, err) ==
    [rs EXCEPT !.pc = "sleep", !.sleeps = Append(@, rs.delay)]

\* fn has returned err: return nil, or log and go to sleep for `delay`
RetryFnReturned(rs, err) ==
    IF err = NilErr
    THEN [rs EXCEPT !.pc = "done", !.result = NilErr]
    ELSE [rs EXCEPT !.pc = "sleep", !.sleeps = Append(@, rs.delay)]

\* time.Sleep has returned: grow and cap the delay, try++
RetryWoke(rs) ==
    LET d == rs.delay * rs.mult
    IN  [rs EXCEPT !.delay = IF d >= rs.maxWait THEN rs.maxWait ELSE d,
                   !.try = @ + 1,
                   !.pc = "loop"]

---------------------------------------------------------------------------
(* HTTP layer: what a handler returns, and what Wrap makes of it *)

NilRet == [kind |-> "nil", statusCode |-> 0, message |-> ""]

WithStatusError(status, message) ==
    [kind |-> "http", statusCode |-> status, message |-> message]

BadRequestError(message) == WithStatusError(StatusBadRequest, message)

InternelServerError(message) == WithStatusError(StatusInternalServerError, message)

NotFoundError(message) == WithStatusError(StatusNotFound, message)

HTTPErrorStatus(e) ==
    IF e.statusCode = 0 THEN StatusInternalServerError ELSE e.statusCode

\* the response when nothing was rendered: net/http answers 200 with an empty body
EmptyResponse == [status |-> StatusOK, body |-> <<>>]

\* render.JSON(w, r, struct{Status string}{status})
StatusResponse(status) == [status |-> StatusOK, body |-> <<"status", status>>]

\* Wrap: ret is the handler's return value, written what the handler rendered itself
Wrap(ret, written) ==
    IF ret.kind = "nil" THEN written
    ELSE IF ret.kind = "http"
         THEN [status |-> HTTPErrorStatus(ret), body |-> <<"error", ret.message>>]
         ELSE [status |-> StatusInternalServerError, body |-> <<"error", "unexpected error">>]

\* a handler's return value that is an error but not an *HTTPError: errors.New(text)
OtherError(text) == [kind |-> "other", statusCode |-> 0, message |-> text]

\* HTTPError.Error()
HTTPErrorError(e) ==
    "status: " \o ToString(HTTPErrorStatus(e))
               \o (IF e.message # "" THEN " - " \o e.message ELSE "")

\* HTTPError.Error() of pkg/httputil/httputil.go: formats the statusCode field
HTTPErrorErrorOld(e) ==
    "status: " \o ToString(e.statusCode)
               \o (IF e.message # "" THEN " - " \o e.message ELSE "")

\* the handler panicked: nothing is written, net/http drops the connection
Panic(why) == [status |-> 0, body |-> <<"panic", why>>]

\* Wrap of pkg/httputil/httputil.go.  In the branch of a non-*HTTPError the failed
\* type assertion has left httpError nil and httpError.statusCode is read;
\* an *HTTPError is rendered with its statusCode field, and WriteHeader panics
\* for a code outside 100..999.
WrapOld(ret, written) ==
    IF ret.kind = "nil" THEN written
    ELSE IF ret.kind = "http"
         THEN IF ret.statusCode \in 100..999
              THEN [status |-> ret.statusCode, body |-> <<"error", ret.message>>]
              ELSE Panic("invalid WriteHeader code")
         ELSE Panic("nil pointer dereference")

\* SubmitArgsError formatting the cause with %v instead of %w
SubmitArgsErrorV(err) == <<"couldn't build submit args, " \o err[1]>>

\* Submit's error return when submitArgs failed
SubmitArgsError(err) == ErrorfW("couldn't build submit args", err)

\* HandleSubmit's mapping of an error returned by Submit
HandleSubmitError(err) ==
    IF ErrorsIs(err, PresetNotFoundError)
    THEN NotFoundError("preset not found")
    ELSE InternelServerError("error when submitting spark app")

---------------------------------------------------------------------------
(* State after construction *)

RtIdle == [active |-> FALSE, rs |-> RetryInit(0, 0, 0, 0), script |-> <<>>]

UtIdle == [spec |-> "none"]

\* SubmitSpec: only POST requests arrive
UtSubmits == [spec |-> "submits"]

\* how many requests a behaviour takes
ReqLimit == IF ut = UtSubmits THEN MaxSubmits ELSE MaxReqs

ServerInit ==
    /\ presets \in PossibleRegistries
    /\ spark = [binaryPath |-> binaryPath, master |-> master]
    /\ debug \in BOOLEAN
    /\ reqs = <<>>
    /\ jobs = <<>>
    /\ procs = <<>>
    /\ retryCounter = [p \in PresetLabels |-> 0]
    /\ submitCounter = [k \in PresetLabels \X {"success", "failure"} |-> 0]
    /\ startFails = 0

Init == ServerInit /\ rt = RtIdle /\ ut = UtIdle

---------------------------------------------------------------------------
(* Launcher child processes *)

\* cmd.Stdout / cmd.Stderr as the caller set them: a zapio.Writer in debug mode,
\* else nil (the null device)
ExecSink == IF debug THEN "log" ELSE "discard"

\* Status: cmd.Stdout = &buffer; cmd.Stderr = &buffer
StatusSink == "buffer"

\* CapturedBy when only cmd.Stdout is set to the buffer
CapturedStdoutOnly(sink, fd) == sink = "buffer" /\ fd = "stdout"

\* whether what the child writes to fd ends up in the caller's buffer
CapturedBy(sink, fd) == sink = "buffer"

\* a child that was forked and is running
NewProc(owner, args, sink) ==
    [owner |-> owner, path |-> spark.binaryPath, args |-> args, sink |-> sink,
     state |-> "running", ok |-> FALSE, buffer |-> "", written |-> <<>>]

\* a cmd.Run() whose fork/exec failed: no child
FailedProc(owner, args, sink) ==
    [NewProc(owner, args, sink) EXCEPT !.state = "startfailed"]

\* the running child writes data to fd
ProcWrite(p, fd, data) ==
    /\ procs[p].state = "running"
    /\ procs[p].sink = "buffer"
    /\ Len(procs[p].written) < MaxWrites
    /\ procs' = [procs EXCEPT
                    ![p].written = Append(@, <<fd, data>>),
                    ![p].buffer = IF CapturedBy(procs[p].sink, fd) THEN @ \o data ELSE @]
    /\ UNCHANGED <<presets, spark, debug, reqs, jobs, retryCounter, submitCounter, startFails, rt, ut>>

\* the running child exits, with status zero (ok) or not
ProcExit(p, ok) ==
    /\ procs[p].state = "running"
    /\ procs' = [procs EXCEPT ![p].state = "exited", ![p].ok = ok]
    /\ UNCHANGED <<presets, spark, debug, reqs, jobs, retryCounter, submitCounter, startFails, rt, ut>>

\* the error cmd.Run() returns for a child that has exited
RunError(proc) == IF proc.ok THEN NilErr ELSE <<"exit status 1">>

---------------------------------------------------------------------------
(* Requests *)

NewReq(method, preset, namespace, name) ==
    [method |-> method, preset |-> preset, namespace |-> namespace, name |-> name,
     pc |-> "handling", status |-> 0, body |-> <<>>,
     called |-> <<>>, returned |-> FALSE, err |-> NilErr, job |-> 0, proc |-> 0]

\* the response is written and the request is over
Answered(req, resp) ==
    [req EXCEPT !.pc = "done", !.status = resp.status, !.body = resp.body]

---------------------------------------------------------------------------
(* Submit: POST /?preset= *)

\* the goroutine `go func() { retry(10, 1*time.Second, 2, 5*time.Minute, ...) }()`,
\* with the one exec.Cmd that Submit built for it
NewJob(r, presetName, args) ==
    [req |-> r, preset |-> presetName, args |-> args,
     rs |-> RetryInit(SubmitRetries, SubmitInitialDelay, SubmitMult, SubmitMaxWait),
     cmdStarted |-> FALSE, proc |-> 0,
     writer |-> IF debug THEN "open" ELSE "none",
     hist |-> <<>>, recorded |-> <<>>]

\* HandleSubmit's check of its query parameter
SubmitValidation(preset) ==
    IF preset = "" THEN BadRequestError("missing parameter preset") ELSE NilRet

\* HandleSubmit up to and including Submit's `go` statement
HandleSubmit(preset) ==
    /\ Len(reqs) < ReqLimit
    /\ LET req == NewReq("POST", preset, "", "")
       IN  IF SubmitValidation(preset) # NilRet
           THEN /\ reqs' = Append(reqs,
                       Answered(req, Wrap(SubmitValidation(preset), EmptyResponse)))
                /\ UNCHANGED jobs
           ELSE \E order \in ConfOrders(IF preset \in DOMAIN presets
                                        THEN presets[preset].SparkConf ELSE <<>>) :
                  LET sa == submitArgs(preset, order)
                      called == [req EXCEPT !.called = << <<"Submit", preset>> >>]
                  IN  IF sa.err # NilErr
                      THEN LET err == SubmitArgsError(sa.err)
                           IN  /\ reqs' = Append(reqs,
                                      Answered([called EXCEPT !.err = err, !.returned = TRUE],
                                               Wrap(HandleSubmitError(err), EmptyResponse)))
                               /\ UNCHANGED jobs
                      ELSE /\ jobs' = Append(jobs, NewJob(Len(reqs) + 1, preset, sa.args))
                           /\ reqs' = Append(reqs,
                                  [called EXCEPT !.pc = "dispatched", !.job = Len(jobs) + 1])
    /\ UNCHANGED <<presets, spark, debug, procs, retryCounter, submitCounter, startFails, rt, ut>>

\* SubmitReturn that removes the submitted preset from the registry
SubmitReturnForgetsPreset(r) ==
    /\ reqs[r].pc = "dispatched"
    /\ presets' = [n \in DOMAIN presets \ {reqs[r].preset} |-> presets[n]]
    /\ jobs' = [jobs EXCEPT ![reqs[r].job].writer = IF @ = "open" THEN "closed" ELSE @]
    /\ reqs' = [reqs EXCEPT ![r] =
                   Answered([@ EXCEPT !.err = NilErr, !.returned = TRUE],
                            Wrap(NilRet, EmptyResponse))]
    /\ UNCHANGED <<spark, debug, procs, retryCounter, submitCounter, startFails, rt, ut>>

\* SubmitReturn when the retry loop runs on the caller's goroutine (no `go`)
SubmitReturnSync(r) ==
    /\ reqs[r].pc = "dispatched"
    /\ jobs[reqs[r].job].rs.pc = "done"
    /\ jobs' = [jobs EXCEPT ![reqs[r].job].writer = IF @ = "open" THEN "closed" ELSE @]
    /\ reqs' = [reqs EXCEPT ![r] =
                   Answered([@ EXCEPT !.err = NilErr, !.returned = TRUE],
                            Wrap(NilRet, EmptyResponse))]
    /\ UNCHANGED <<presets, spark, debug, procs, retryCounter, submitCounter, startFails, rt, ut>>

\* Submit's `return nil` (the deferred writer.Close() runs here) and the handler's answer
SubmitReturn(r) ==
    /\ reqs[r].pc = "dispatched"
    /\ jobs' = [jobs EXCEPT ![reqs[r].job].writer = IF @ = "open" THEN "closed" ELSE @]
    /\ reqs' = [reqs EXCEPT ![r] =
                   Answered([@ EXCEPT !.err = NilErr, !.returned = TRUE],
                            Wrap(NilRet, EmptyResponse))]
    /\ UNCHANGED <<presets, spark, debug, procs, retryCounter, submitCounter, startFails, rt, ut>>

\* the goroutine after retry() returned err: the status labels of submitCounter it
\* increments, in order
Outcomes(err) ==
    IF err # NilErr THEN <<"failure", "success">> ELSE <<"success">>

CountOutcomes(counter, presetName, labels) ==
    [k \in DOMAIN counter |->
        counter[k] + IF k[1] = presetName
                     THEN Cardinality({i \in 1..Len(labels) : labels[i] = k[2]})
                     ELSE 0]

\* job j's retry state becomes rs after an attempt that ended as `what`; when retry()
\* has returned, the goroutine counts the outcome and ends
JobStep(j, rs, what) ==
    LET labels == IF rs.pc = "done" THEN Outcomes(rs.result) ELSE <<>>
    IN  /\ jobs' = [jobs EXCEPT ![j].rs = rs,
                                ![j].hist = IF what = "" THEN @ ELSE Append(@, what),
                                ![j].recorded = @ \o labels]
        /\ submitCounter' = CountOutcomes(submitCounter, jobs[j].preset, labels)

\* the retry state at the top of the loop: on entry, or when time.Sleep has returned
AtLoop(rs) == IF rs.pc = "sleep" THEN RetryWoke(rs) ELSE rs

\* JobAttempt under a lock held while a launcher runs: one cmd.Run() at a time
JobAttemptOneAtATime(j) ==
    /\ jobs[j].rs.pc \in {"loop", "sleep"}
    /\ AtLoop(jobs[j].rs).try < jobs[j].rs.retries
    /\ \A k \in 1..Len(jobs) : jobs[k].rs.pc # "fn"
    /\ retryCounter' = [retryCounter EXCEPT ![jobs[j].preset] = @ + 1]
    /\ LET rs == RetryLoop(AtLoop(jobs[j].rs))
       IN  \/ /\ jobs[j].cmdStarted
              /\ JobStep(j, RetryFnReturned(rs, <<"exec: already started">>), "reused")
              /\ UNCHANGED <<procs, startFails>>
           \/ /\ ~jobs[j].cmdStarted
              /\ startFails < MaxStartFail
              /\ startFails' = startFails + 1
              /\ procs' = Append(procs, FailedProc(<<"job", j>>, jobs[j].args, ExecSink))
              /\ JobStep(j, RetryFnReturned(rs, <<"fork/exec failed">>), "startfail")
           \/ /\ ~jobs[j].cmdStarted
              /\ procs' = Append(procs, NewProc(<<"job", j>>, jobs[j].args, ExecSink))
              /\ jobs' = [jobs EXCEPT ![j].rs = rs, ![j].cmdStarted = TRUE,
                                      ![j].proc = Len(procs) + 1]
              /\ UNCHANGED <<submitCounter, startFails>>
    /\ UNCHANGED <<presets, spark, debug, reqs, rt, ut>>

\* JobAttempt counting only the attempts that get as far as fork/exec
JobAttemptCountsLaunches(j) ==
    /\ jobs[j].rs.pc \in {"loop", "sleep"}
    /\ AtLoop(jobs[j].rs).try < jobs[j].rs.retries
    /\ LET rs == RetryLoop(AtLoop(jobs[j].rs))
       IN  \/ /\ jobs[j].cmdStarted
              /\ JobStep(j, RetryFnReturned(rs, <<"exec: already started">>), "reused")
              /\ UNCHANGED <<procs, startFails, retryCounter>>
           \/ /\ ~jobs[j].cmdStarted
              /\ startFails < MaxStartFail
              /\ startFails' = startFails + 1
              /\ retryCounter' = [retryCounter EXCEPT ![jobs[j].preset] = @ + 1]
              /\ procs' = Append(procs, FailedProc(<<"job", j>>, jobs[j].args, ExecSink))
              /\ JobStep(j, RetryFnReturned(rs, <<"fork/exec failed">>), "startfail")
           \/ /\ ~jobs[j].cmdStarted
              /\ retryCounter' = [retryCounter EXCEPT ![jobs[j].preset] = @ + 1]
              /\ procs' = Append(procs, NewProc(<<"job", j>>, jobs[j].args, ExecSink))
              /\ jobs' = [jobs EXCEPT ![j].rs = rs, ![j].cmdStarted = TRUE,
                                      ![j].proc = Len(procs) + 1]
              /\ UNCHANGED <<submitCounter, startFails>>
    /\ UNCHANGED <<presets, spark, debug, reqs, rt, ut>>

\* the loop goes round: (time.Sleep returns,) the loop condition holds and the closure is
\* called: retryCounter.Inc(), then cmd.Run() on the job's exec.Cmd
JobAttempt(j) ==
    /\ jobs[j].rs.pc \in {"loop", "sleep"}
    /\ AtLoop(jobs[j].rs).try < jobs[j].rs.retries
    /\ retryCounter' = [retryCounter EXCEPT ![jobs[j].preset] = @ + 1]
    /\ LET rs == RetryLoop(AtLoop(jobs[j].rs))
       IN  \/ \* the Cmd has been started before: Start refuses, no child is spawned
              /\ jobs[j].cmdStarted
              /\ JobStep(j, RetryFnReturned(rs, <<"exec: already started">>), "reused")
              /\ UNCHANGED <<procs, startFails>>
           \/ \* fork/exec fails: cmd.Process stays nil
              /\ ~jobs[j].cmdStarted
              /\ startFails < MaxStartFail
              /\ startFails' = startFails + 1
              /\ procs' = Append(procs, FailedProc(<<"job", j>>, jobs[j].args, ExecSink))
              /\ JobStep(j, RetryFnReturned(rs, <<"fork/exec failed">>), "startfail")
           \/ \* the child is spawned; Run waits for it
              /\ ~jobs[j].cmdStarted
              /\ procs' = Append(procs, NewProc(<<"job", j>>, jobs[j].args, ExecSink))
              /\ jobs' = [jobs EXCEPT ![j].rs = rs, ![j].cmdStarted = TRUE,
                                      ![j].proc = Len(procs) + 1]
              /\ UNCHANGED <<submitCounter, startFails>>
    /\ UNCHANGED <<presets, spark, debug, reqs, rt, ut>>

\* the child has exited: cmd.Run() returns, and with it the closure
JobFnReturn(j) ==
    /\ jobs[j].rs.pc = "fn"
    /\ procs[jobs[j].proc].state = "exited"
    /\ LET err == RunError(procs[jobs[j].proc])
       IN  JobStep(j, RetryFnReturned(jobs[j].rs, err), IF err = NilErr THEN "ok" ELSE "exit")
    /\ UNCHANGED <<presets, spark, debug, reqs, procs, retryCounter, startFails, rt, ut>>

\* (time.Sleep returns and) the loop condition fails: retry() returns "retries exceeded"
JobExhausted(j) ==
    /\ jobs[j].rs.pc \in {"loop", "sleep"}
    /\ AtLoop(jobs[j].rs).try >= jobs[j].rs.retries
    /\ JobStep(j, RetryLoop(AtLoop(jobs[j].rs)), "")
    /\ UNCHANGED <<presets, spark, debug, reqs, procs, retryCounter, startFails, rt, ut>>

---------------------------------------------------------------------------
(* Kill: DELETE /?namespace=&name= *)

\* KillValidation without the check of name
KillValidationNoName(namespace, name) ==
    IF namespace = "" THEN BadRequestError("missing parameter namespace") ELSE NilRet

\* HandleKill's checks of its query parameters
KillValidation(namespace, name) ==
    IF namespace = "" THEN BadRequestError("missing parameter namespace")
    ELSE IF name = "" THEN BadRequestError("missing parameter name")
    ELSE NilRet

\* HandleKill up to the point where Kill's cmd.Run() waits for the child
HandleKill(namespace, name) ==
    /\ Len(reqs) < ReqLimit
    /\ LET req == NewReq("DELETE", "", namespace, name)
           r == Len(reqs) + 1
       IN  IF KillValidation(namespace, name) # NilRet
           THEN /\ reqs' = Append(reqs,
                       Answered(req, Wrap(KillValidation(namespace, name), EmptyResponse)))
                /\ UNCHANGED <<procs, startFails>>
           ELSE LET args == buildArgs("kill", namespace, name)
                    called == [req EXCEPT !.called = << <<"Kill", namespace, name>> >>,
                                          !.proc = Len(procs) + 1]
                IN  \/ \* fork/exec fails: the error is logged and Kill returns
                       /\ startFails < MaxStartFail
                       /\ startFails' = startFails + 1
                       /\ procs' = Append(procs, FailedProc(<<"req", r>>, args, ExecSink))
                       /\ reqs' = Append(reqs,
                              Answered([called EXCEPT !.returned = TRUE],
                                       Wrap(NilRet, EmptyResponse)))
                    \/ \* the child is spawned; Run waits for it
                       /\ procs' = Append(procs, NewProc(<<"req", r>>, args, ExecSink))
                       /\ reqs' = Append(reqs, [called EXCEPT !.pc = "waiting"])
                       /\ UNCHANGED startFails
    /\ UNCHANGED <<presets, spark, debug, jobs, retryCounter, submitCounter, rt, ut>>

\* KillReturn when a failed kill is run again
KillReturnRetry(r) ==
    /\ reqs[r].method = "DELETE"
    /\ reqs[r].pc = "waiting"
    /\ procs[reqs[r].proc].state = "exited"
    /\ IF procs[reqs[r].proc].ok
       THEN /\ reqs' = [reqs EXCEPT ![r] =
                   Answered([@ EXCEPT !.returned = TRUE], Wrap(NilRet, EmptyResponse))]
            /\ UNCHANGED procs
       ELSE /\ procs' = Append(procs,
                   NewProc(<<"req", r>>, procs[reqs[r].proc].args, ExecSink))
            /\ reqs' = [reqs EXCEPT ![r].proc = Len(procs) + 1]
    /\ UNCHANGED <<presets, spark, debug, jobs, retryCounter, submitCounter, startFails, rt, ut>>

\* cmd.Run() returns (an error is only logged), Kill returns, the handler answers
KillReturn(r) ==
    /\ reqs[r].method = "DELETE"
    /\ reqs[r].pc = "waiting"
    /\ procs[reqs[r].proc].state = "exited"
    /\ reqs' = [reqs EXCEPT ![r] =
                   Answered([@ EXCEPT !.returned = TRUE], Wrap(NilRet, EmptyResponse))]
    /\ UNCHANGED <<presets, spark, debug, jobs, procs, retryCounter, submitCounter, startFails, rt, ut>>

---------------------------------------------------------------------------
(* Status: GET /?namespace=&name= *)

\* HandleStatus's check of its query parameters
StatusValidation(namespace) ==
    IF namespace = "" THEN BadRequestError("missing parameter namespace") ELSE NilRet

\* StatusName without the default
StatusNameNoDefault(name) == name

\* HandleStatus's default for the name parameter
StatusName(name) == IF name = "" THEN "*" ELSE name

\* HandleStatus up to the point where Status's cmd.Run() waits for the child
HandleStatus(namespace, name) ==
    /\ Len(reqs) < ReqLimit
    /\ LET req == NewReq("GET", "", namespace, name)
           r == Len(reqs) + 1
       IN  IF StatusValidation(namespace) # NilRet
           THEN /\ reqs' = Append(reqs,
                       Answered(req, Wrap(StatusValidation(namespace), EmptyResponse)))
                /\ UNCHANGED <<procs, startFails>>
           ELSE LET args == buildArgs("status", namespace, StatusName(name))
                    called == [req EXCEPT
                                  !.called = << <<"Status", namespace, StatusName(name)>> >>,
                                  !.proc = Len(procs) + 1]
                    failed == FailedProc(<<"req", r>>, args, StatusSink)
                IN  \/ \* fork/exec fails: the error is logged, the buffer is returned
                       /\ startFails < MaxStartFail
                       /\ startFails' = startFails + 1
                       /\ procs' = Append(procs, failed)
                       /\ reqs' = Append(reqs,
                              Answered([called EXCEPT !.returned = TRUE],
                                       Wrap(NilRet, StatusResponse(failed.buffer))))
                    \/ \* the child is spawned; Run waits for it
                       /\ procs' = Append(procs, NewProc(<<"req", r>>, args, StatusSink))
                       /\ reqs' = Append(reqs, [called EXCEPT !.pc = "waiting"])
                       /\ UNCHANGED startFails
    /\ UNCHANGED <<presets, spark, debug, jobs, retryCounter, submitCounter, rt, ut>>

\* cmd.Run() returns (an error is only logged), Status returns buffer.String()
StatusReturn(r) ==
    /\ reqs[r].method = "GET"
    /\ reqs[r].pc = "waiting"
    /\ procs[reqs[r].proc].state = "exited"
    /\ reqs' = [reqs EXCEPT ![r] =
                   Answered([@ EXCEPT !.returned = TRUE],
                            Wrap(NilRet, StatusResponse(procs[reqs[r].proc].buffer)))]
    /\ UNCHANGED <<presets, spark, debug, jobs, procs, retryCounter, submitCounter, startFails, rt, ut>>

---------------------------------------------------------------------------
(* The running server *)

\* what a child can write: a chunk to stdout or a chunk to stderr
Writes == { <<"stdout", "o">>, <<"stderr", "e">> }

Next ==
    \/ \E preset \in PresetParams : HandleSubmit(preset)
    \/ \E r \in 1..Len(reqs) : SubmitReturn(r)
    \/ \E j \in 1..Len(jobs) : JobAttempt(j)
    \/ \E j \in 1..Len(jobs) : JobFnReturn(j)
    \/ \E j \in 1..Len(jobs) : JobExhausted(j)
    \/ \E namespace \in NamespaceParams, name \in NameParams : HandleKill(namespace, name)
    \/ \E r \in 1..Len(reqs) : KillReturn(r)
    \/ \E namespace \in NamespaceParams, name \in NameParams : HandleStatus(namespace, name)
    \/ \E r \in 1..Len(reqs) : StatusReturn(r)
    \/ \E p \in 1..Len(procs), w \in Writes : ProcWrite(p, w[1], w[2])
    \/ \E p \in 1..Len(procs), ok \in BOOLEAN : ProcExit(p, ok)

Spec == Init /\ [][Next]_vars

---------------------------------------------------------------------------
(* retry() on its own: every choice of parameters, every behaviour of attemptFn *)

\* the error returned by the i-th call of the scripted attemptFn
FnResult(script, i) ==
    IF i \in DOMAIN script /\ script[i] THEN NilErr ELSE <<"error in fn">>

ServerIdle ==
    /\ presets = [n \in {"pi"} |-> PresetPi]
    /\ spark = [binaryPath |-> binaryPath, master |-> master]
    /\ debug = FALSE
    /\ reqs = <<>>
    /\ jobs = <<>>
    /\ procs = <<>>
    /\ retryCounter = [p \in PresetLabels |-> 0]
    /\ submitCounter = [k \in PresetLabels \X {"success", "failure"} |-> 0]
    /\ startFails = 0

RtInit ==
    /\ ServerIdle
    /\ ut = UtIdle
    /\ \E retries \in 0..MaxRetries, initialDelay \in 1..MaxDelay,
          mult \in 1..MaxMult, maxWait \in 1..MaxDelay,
          script \in [1..MaxRetries -> BOOLEAN] :
            rt = [active |-> TRUE,
                  rs |-> RetryInit(retries, initialDelay, mult, maxWait),
                  script |-> script]

RtLoop ==
    /\ rt.active /\ rt.rs.pc = "loop"
    /\ rt' = [rt EXCEPT !.rs = RetryLoop(@)]
    /\ UNCHANGED <<serverVars, ut>>

RtFn ==
    /\ rt.active /\ rt.rs.pc = "fn"
    /\ rt' = [rt EXCEPT !.rs = RetryFnReturned(@, FnResult(rt.script, rt.rs.calls))]
    /\ UNCHANGED <<serverVars, ut>>

RtWake ==
    /\ rt.active /\ rt.rs.pc = "sleep"
    /\ rt' = [rt EXCEPT !.rs = RetryWoke(@)]
    /\ UNCHANGED <<serverVars, ut>>

RetryNext == RtLoop \/ RtFn \/ RtWake

\* fn returns and time.Sleep returns: the goroutine running retry() keeps being scheduled
RetrySpec == RtInit /\ [][RetryNext]_vars /\ WF_vars(RetryNext)

---------------------------------------------------------------------------
(* package httputil on its own: Wrap around any handler, HandleSubmit around any Spark *)

\* the two copies of package httputil in the repository
HttputilCopies == {"pkg/httputil/httputil.go", "unnamed/part_002"}

\* the statusCode / message fields tried (the values of TestWrap and TestHTTPError)
StatusCodes == {0, StatusForbidden, StatusInternalServerError, StatusBadGateway}

Messages == {"", "my error message"}

\* what the handler given to Wrap returns
HandlerReturns ==
    {NilRet} \cup {WithStatusError(c, m) : c \in StatusCodes, m \in Messages}
             \cup {OtherError("nope"), OtherError("")}

\* what the Submit of the Spark given to HandleSubmit returns
SubmitErrors ==
    {NilErr, PresetNotFoundError, SubmitArgsError(PresetNotFoundError), <<"nope">>}

WrapOf(copy, ret, written) ==
    IF copy = "unnamed/part_002" THEN Wrap(ret, written) ELSE WrapOld(ret, written)

ErrorOf(copy, e) ==
    IF copy = "unnamed/part_002" THEN HTTPErrorError(e) ELSE HTTPErrorErrorOld(e)

HtRequest(copy, handler, ret, submitErr) ==
    [spec |-> "http", copy |-> copy, handler |-> handler, ret |-> ret,
     submitErr |-> submitErr, pc |-> "handler", resp |-> EmptyResponse,
     status |-> 0, errorText |-> ""]

HtInit ==
    /\ ServerIdle
    /\ rt = RtIdle
    /\ \E copy \in HttputilCopies :
          \/ \E ret \in HandlerReturns : ut = HtRequest(copy, "raw", ret, NilErr)
          \/ \E err \in SubmitErrors : ut = HtRequest(copy, "submit", NilRet, err)

\* fn(w, r) returns; for HandleSubmit (preset given) the value follows from Submit's error
HtHandler ==
    /\ ut.spec = "http" /\ ut.pc = "handler"
    /\ ut' = [ut EXCEPT
                 !.ret = IF ut.handler = "raw" THEN @
                         ELSE IF ut.submitErr = NilErr THEN NilRet
                         ELSE HandleSubmitError(ut.submitErr),
                 !.pc = "wrap"]
    /\ UNCHANGED <<serverVars, rt>>

\* Wrap renders the returned error
HtWrap ==
    /\ ut.spec = "http" /\ ut.pc = "wrap"
    /\ ut' = [ut EXCEPT !.resp = WrapOf(ut.copy, ut.ret, EmptyResponse), !.pc = "done"]
    /\ UNCHANGED <<serverVars, rt>>

\* Status() and Error() are called on the returned *HTTPError
HtInspect ==
    /\ ut.spec = "http" /\ ut.pc # "handler"
    /\ ut.ret.kind = "http" /\ ut.errorText = ""
    /\ ut' = [ut EXCEPT !.status = HTTPErrorStatus(ut.ret),
                        !.errorText = ErrorOf(ut.copy, ut.ret)]
    /\ UNCHANGED <<serverVars, rt>>

HttpNext == HtHandler \/ HtWrap \/ HtInspect

HttpSpec == HtInit /\ [][HttpNext]_vars

---------------------------------------------------------------------------
(* Startup on its own: mainCmd.Run calls New and serves, or logs Fatal and exits *)

NwInit ==
    /\ ServerIdle
    /\ rt = RtIdle
    /\ \E fs \in FileSystems, dbg \in BOOLEAN :
          ut = [spec |-> "new", fs |-> fs, debug |-> dbg, pc |-> "start",
                spark |-> <<>>, err |-> NilErr]

\* s, err := spark.New(...)
NwNew ==
    /\ ut.spec = "new" /\ ut.pc = "start"
    /\ ut' = [ut EXCEPT !.spark = New(ut.fs, ut.debug).spark,
                        !.err = New(ut.fs, ut.debug).err,
                        !.pc = "returned"]
    /\ UNCHANGED <<serverVars, rt>>

\* err != nil: zap.L().Fatal exits the process
NwFatal ==
    /\ ut.spec = "new" /\ ut.pc = "returned" /\ ut.err # NilErr
    /\ ut' = [ut EXCEPT !.pc = "exited"]
    /\ UNCHANGED <<serverVars, rt>>

\* the routes are registered with s and http.ListenAndServe is called
NwServe ==
    /\ ut.spec = "new" /\ ut.pc = "returned" /\ ut.err = NilErr
    /\ ut' = [ut EXCEPT !.pc = "serving"]
    /\ UNCHANGED <<serverVars, rt>>

NewNext == NwNew \/ NwFatal \/ NwServe

NewSpec == NwInit /\ [][NewNext]_vars

---------------------------------------------------------------------------
(* The running server under POST requests only: submissions side by side *)

SubmitInit == ServerInit /\ rt = RtIdle /\ ut = UtSubmits

SubmitNext ==
    \/ \E preset \in PresetParams : HandleSubmit(preset)
    \/ \E r \in 1..Len(reqs) : SubmitReturn(r)
    \/ \E j \in 1..Len(jobs) : JobAttempt(j)
    \/ \E j \in 1..Len(jobs) : JobFnReturn(j)
    \/ \E j \in 1..Len(jobs) : JobExhausted(j)
    \/ \E p \in 1..Len(procs), ok \in BOOLEAN : ProcExit(p, ok)

SubmitSpec == SubmitInit /\ [][SubmitNext]_vars

---------------------------------------------------------------------------
(* Properties *)

\* the launcher invocations made for job j / for request r
JobProcs(j) == { p \in 1..Len(procs) : procs[p].owner = <<"job", j>> }

ReqProcs(r) == { p \in 1..Len(procs) : procs[p].owner = <<"req", r>> }

\* what was written, chunk after chunk, as one string
RECURSIVE Concat(_)
Concat(written) ==
    IF written = <<>> THEN "" ELSE written[1][2] \o Concat(Tail(written))

\* the first call of the scripted attemptFn that succeeds among the first n, or 0
FirstSuccess(script, n) ==
    IF \E k \in 1..n : script[k]
    THEN CHOOSE k \in 1..n : script[k] /\ \A i \in 1..(k - 1) : ~script[i]
    ELSE 0

\* C1: for a registered preset, Submit never waits for its retry loop: once the loop
\* is dispatched the return is possible in every state, whatever the loop has done or
\* not done yet, and what it returns is nil (the request is answered 200), whatever
\* the outcome of the attempts.
C1_SubmitReturnsNilWithoutWaiting ==
    \A r \in 1..Len(reqs) :
        (reqs[r].method = "POST" /\ reqs[r].preset \in DOMAIN presets) =>
            /\ reqs[r].job \in 1..Len(jobs)
            /\ reqs[r].pc \in {"dispatched", "done"}
            /\ reqs[r].pc = "dispatched" => ENABLED SubmitReturn(r)
            /\ reqs[r].pc = "done" =>
                  /\ reqs[r].returned
                  /\ reqs[r].err = NilErr
                  /\ reqs[r].status = StatusOK

\* C1 witness: Submit has returned nil while the first launcher process of its loop is
\* still running.
C1_Witness ==
    \E r \in 1..Len(reqs) :
        /\ reqs[r].method = "POST" /\ reqs[r].pc = "done" /\ reqs[r].job # 0
        /\ reqs[r].err = NilErr
        /\ jobs[reqs[r].job].rs.pc = "fn"
        /\ jobs[reqs[r].job].rs.calls = 1
        /\ procs[jobs[reqs[r].job].proc].state = "running"

\* C2: when attemptFn fails on its first k-1 calls and succeeds on call k <= retries,
\* retry returns nil after exactly k calls (and never makes more than k).
C2_RetryStopsAtFirstSuccess ==
    LET k == FirstSuccess(rt.script, rt.rs.retries)
    IN  (rt.active /\ k # 0) =>
            /\ rt.rs.calls <= k
            /\ rt.rs.pc = "done" => (rt.rs.result = NilErr /\ rt.rs.calls = k)

\* C2 witness: maxAttempts = 3, attemptFn fails twice and then succeeds, retry has
\* returned nil after 3 calls.
C2_Witness ==
    /\ rt.active /\ rt.rs.retries = 3
    /\ FirstSuccess(rt.script, 3) = 3
    /\ rt.rs.pc = "done" /\ rt.rs.result = NilErr /\ rt.rs.calls = 3

\* attemptFn fails on every call retry can make
AlwaysFails == rt.active /\ rt.rs.retries >= 1 /\ FirstSuccess(rt.script, rt.rs.retries) = 0

\* C3: when attemptFn always fails, retry with maxAttempts = N >= 1 never makes an
\* (N+1)-th call, returns "retries exceeded" after exactly N calls, and does return.
C3_RetryExhausts ==
    /\ [](AlwaysFails =>
            /\ rt.rs.calls <= rt.rs.retries
            /\ rt.rs.pc = "done" =>
                  (rt.rs.result = RetriesExceeded /\ rt.rs.calls = rt.rs.retries))
    /\ (AlwaysFails ~> rt.rs.pc = "done")

\* C3 witness: an always failing attemptFn, maxAttempts = 3, retry has returned
\* "retries exceeded" after 3 calls.
C3_Witness ==
    /\ AlwaysFails /\ rt.rs.retries = 3
    /\ rt.rs.pc = "done" /\ rt.rs.result = RetriesExceeded /\ rt.rs.calls = 3

\* C4 (as claimed): every attempt of a submission's retry loop has spawned (or tried
\* to spawn) a launcher process of its own with the submission's arguments, so an
\* attempt after a failed one can still succeed.
C4_EveryAttemptSpawns ==
    \A j \in 1..Len(jobs) :
        /\ Cardinality(JobProcs(j)) = jobs[j].rs.calls
        /\ \A p \in JobProcs(j) : procs[p].args = jobs[j].args /\ procs[p].path = binaryPath

\* C5 (as claimed): when the loop of a submission has ended, exactly one outcome has
\* been counted for it: "success" iff an attempt succeeded, "failure" iff the retries
\* were exhausted, never both.
C5_ExactlyOneOutcome ==
    \A j \in 1..Len(jobs) :
        jobs[j].rs.pc = "done" =>
            jobs[j].recorded = IF jobs[j].rs.result = NilErr
                               THEN <<"success">> ELSE <<"failure">>

\* C6: for a preset name that is not a key of the registry, Submit returns an error
\* whose chain holds PresetNotFoundError (errors.Is), wrapped as it is, and a POST
\* for it is answered 404 with the error "preset not found".
C6_PresetNotFound ==
    /\ \A name \in PresetParams \ DOMAIN presets :
          ErrorsIs(SubmitArgsError(submitArgs(name, <<>>).err), PresetNotFoundError)
    /\ \A r \in 1..Len(reqs) :
          (reqs[r].method = "POST" /\ reqs[r].preset # ""
                /\ reqs[r].preset \notin DOMAIN presets) =>
              /\ reqs[r].pc = "done"
              /\ reqs[r].called = << <<"Submit", reqs[r].preset>> >>
              /\ reqs[r].returned
              /\ ErrorsIs(reqs[r].err, PresetNotFoundError)
              /\ reqs[r].status = StatusNotFound
              /\ reqs[r].body = <<"error", "preset not found">>
              /\ reqs[r].job = 0

\* C6 witness: a POST for the unregistered preset "etl" has been answered 404, from a
\* wrapped PresetNotFoundError.
C6_Witness ==
    \E r \in 1..Len(reqs) :
        /\ reqs[r].method = "POST" /\ reqs[r].preset = "etl"
        /\ "etl" \notin DOMAIN presets
        /\ reqs[r].status = StatusNotFound
        /\ Len(reqs[r].err) = 2 /\ ErrorsIs(reqs[r].err, PresetNotFoundError)

\* C7 (as claimed): Kill does not wait for its child: once the kill process is
\* spawned, Kill can return and the DELETE request can be answered, whether or not
\* the child has exited.
C7_KillReturnsWithoutWaiting ==
    \A r \in 1..Len(reqs) :
        (reqs[r].method = "DELETE" /\ reqs[r].pc = "waiting") => ENABLED KillReturn(r)

\* C8: a Status call that has returned has seen its child exit (or fail to start),
\* and the request is answered 200 with exactly what the child wrote to stdout and
\* stderr, in write order; also when the child failed or wrote nothing.
C8_StatusReturnsCapturedOutput ==
    \A r \in 1..Len(reqs) :
        (reqs[r].method = "GET" /\ reqs[r].called # <<>>) =>
            /\ reqs[r].pc \in {"waiting", "done"}
            /\ reqs[r].proc \in 1..Len(procs)
            /\ reqs[r].pc = "done" =>
                  /\ procs[reqs[r].proc].state \in {"exited", "startfailed"}
                  /\ reqs[r].returned
                  /\ reqs[r].status = StatusOK
                  /\ reqs[r].body = <<"status", Concat(procs[reqs[r].proc].written)>>

\* C8 witness: a Status call has returned "eo" from a child that wrote "e" to stderr,
\* then "o" to stdout, and exited non-zero.
C8_Witness ==
    \E r \in 1..Len(reqs) :
        /\ reqs[r].method = "GET" /\ reqs[r].pc = "done" /\ reqs[r].proc # 0
        /\ procs[reqs[r].proc].state = "exited" /\ ~procs[reqs[r].proc].ok
        /\ procs[reqs[r].proc].written = << <<"stderr", "e">>, <<"stdout", "o">> >>
        /\ reqs[r].body = <<"status", "eo">>

\* C9: a Kill or Status call invokes the launcher exactly once, with the arguments
\* buildArgs gives for it, and never again, also when that invocation failed.
C9_KillStatusSingleShot ==
    \A r \in 1..Len(reqs) :
        (reqs[r].method \in {"GET", "DELETE"} /\ reqs[r].called # <<>>) =>
            /\ Len(reqs[r].called) = 1
            /\ ReqProcs(r) = {reqs[r].proc}
            /\ procs[reqs[r].proc].path = binaryPath
            /\ procs[reqs[r].proc].args =
                  buildArgs(IF reqs[r].method = "GET" THEN "status" ELSE "kill",
                            reqs[r].called[1][2], reqs[r].called[1][3])

\* C9 witness: a Kill whose only launcher invocation exited non-zero has returned.
C9_Witness ==
    \E r \in 1..Len(reqs) :
        /\ reqs[r].method = "DELETE" /\ reqs[r].pc = "done" /\ reqs[r].proc # 0
        /\ procs[reqs[r].proc].state = "exited" /\ ~procs[reqs[r].proc].ok
        /\ Cardinality(ReqProcs(r)) = 1

\* the required query parameter a request lacks (the first one its handler checks)
MissingParam(req) ==
    IF req.method = "POST" THEN (IF req.preset = "" THEN "preset" ELSE "")
    ELSE IF req.namespace = "" THEN "namespace"
    ELSE IF req.method = "DELETE" /\ req.name = "" THEN "name"
    ELSE ""

\* C10: a request that lacks a required query parameter is answered 400 with the
\* error "missing parameter <param>", and Submit, Status or Kill is not invoked for
\* it: no facade call, no goroutine, no launcher process.
C10_MissingParameter ==
    \A r \in 1..Len(reqs) :
        MissingParam(reqs[r]) # "" =>
            /\ reqs[r].pc = "done"
            /\ reqs[r].status = StatusBadRequest
            /\ reqs[r].body = <<"error", "missing parameter " \o MissingParam(reqs[r])>>
            /\ reqs[r].called = <<>>
            /\ ~reqs[r].returned
            /\ reqs[r].job = 0
            /\ ReqProcs(r) = {}
            /\ \A j \in 1..Len(jobs) : jobs[j].req # r

\* C10 witness: a DELETE with a namespace and no name has been answered 400.
C10_Witness ==
    \E r \in 1..Len(reqs) :
        /\ reqs[r].method = "DELETE" /\ reqs[r].namespace = "ns" /\ reqs[r].name = ""
        /\ reqs[r].status = StatusBadRequest
        /\ reqs[r].body = <<"error", "missing parameter name">>

\* C11: a GET with a non-empty namespace calls Status exactly once; with the name
\* omitted or empty the name passed is "*", a given name is passed unchanged; the
\* launcher is asked for that namespace and name, and the request is answered 200.
C11_StatusDefaultName ==
    \A r \in 1..Len(reqs) :
        (reqs[r].method = "GET" /\ reqs[r].namespace # "") =>
            /\ Len(reqs[r].called) = 1
            /\ reqs[r].called[1][1] = "Status"
            /\ reqs[r].called[1][2] = reqs[r].namespace
            /\ (reqs[r].name = "" => reqs[r].called[1][3] = "*")
            /\ (reqs[r].name # "" => reqs[r].called[1][3] = reqs[r].name)
            /\ \A p \in ReqProcs(r) :
                   procs[p].args[2] =
                       "--status=" \o reqs[r].namespace \o ":" \o reqs[r].called[1][3]
            /\ (reqs[r].pc = "done" => reqs[r].status = StatusOK)

\* C11 witness: a GET for namespace "ns" without a name has been answered 200 after
\* one Status call for the name "*".
C11_Witness ==
    \E r \in 1..Len(reqs) :
        /\ reqs[r].method = "GET" /\ reqs[r].namespace = "ns" /\ reqs[r].name = ""
        /\ reqs[r].pc = "done" /\ reqs[r].status = StatusOK
        /\ reqs[r].called = << <<"Status", "ns", "*">> >>

\* C12: an error that is not recognised never reaches the client: when the wrapped
\* handler returns an error that is not an *HTTPError, Wrap answers 500 with the
\* message "unexpected error"; when Submit returns an error other than
\* PresetNotFoundError, HandleSubmit answers 500 with "error when submitting spark
\* app".  In both cases a response is written and it does not carry the error's text.
C12_UnknownErrorNotLeaked ==
    (ut.spec = "http" /\ ut.pc = "done") =>
        /\ ut.ret.kind = "other" =>
               ut.resp = [status |-> StatusInternalServerError,
                          body |-> <<"error", "unexpected error">>]
        /\ (/\ ut.handler = "submit"
            /\ ut.submitErr # NilErr
            /\ ~ErrorsIs(ut.submitErr, PresetNotFoundError)) =>
               ut.resp = [status |-> StatusInternalServerError,
                          body |-> <<"error", "error when submitting spark app">>]

\* C13: an HTTPError with statusCode 0 counts as 500 everywhere, and a non-zero code
\* is used as it is: by Status(), by Error() ("status: <code>" and, for a non-empty
\* message, " - <message>"), and by Wrap, whose JSON body carries the message.
C13_ZeroStatusIs500 ==
    (ut.spec = "http" /\ ut.ret.kind = "http") =>
        LET code == IF ut.ret.statusCode = 0 THEN StatusInternalServerError
                    ELSE ut.ret.statusCode
        IN  /\ ut.errorText # "" =>
                   /\ ut.status = code
                   /\ ut.errorText =
                          "status: " \o ToString(code)
                              \o (IF ut.ret.message # "" THEN " - " \o ut.ret.message
                                  ELSE "")
            /\ ut.pc = "done" =>
                   ut.resp = [status |-> code, body |-> <<"error", ut.ret.message>>]

\* a directory entry New takes a preset from: a regular file that can be read, whose
\* name is some bytes followed by ".yaml", and whose content parses
Loadable(f) ==
    /\ ~f.isDir /\ f.readable /\ f.doc.parses
    /\ \E k \in 0..Len(f.name) : f.name = SubSeq(f.name, 1, k) \o YamlSuffix

\* the name of a loadable file without its ".yaml"
Stem(f) ==
    String(CHOOSE s \in { SubSeq(f.name, 1, k) : k \in 0..Len(f.name) } :
               f.name = s \o YamlSuffix)

\* positions of the loadable entries in the listing New was given
LoadableFiles ==
    { i \in 1..Len(ut.fs.files) : Loadable(ut.fs.files[i]) }

NewReturned == ut.spec = "new" /\ ut.pc # "start"

C15_PresetsWellFormed ==
    (NewReturned /\ ut.err = NilErr) =>
        \A n \in DOMAIN ut.spark[1].presets :
            n # "" /\ ut.spark[1].presets[n].Main # ""

\* C16: the registry has exactly one entry per regular file whose name ends in
\* ".yaml", that can be read and parses; its key is the file name without ".yaml",
\* its fields are the document's main, args and sparkConf (the zero value for a key
\* the document lacks).  Other entries contribute nothing and do not fail the load.
C16_OneEntryPerYamlFile ==
    (NewReturned /\ ut.err = NilErr) =>
        LET registry == ut.spark[1].presets
        IN  /\ DOMAIN registry = { Stem(ut.fs.files[i]) : i \in LoadableFiles }
            /\ Cardinality(DOMAIN registry) = Cardinality(LoadableFiles)
            /\ \A i \in LoadableFiles :
                   LET d == ut.fs.files[i].doc
                       p == registry[Stem(ut.fs.files[i])]
                   IN  /\ p.Main = (IF "main" \in d.keys THEN d.main ELSE "")
                       /\ p.Args = (IF "args" \in d.keys THEN d.args ELSE <<>>)
                       /\ "sparkConf" \in d.keys => p.SparkConf = d.sparkConf
                       /\ "sparkConf" \notin d.keys => DOMAIN p.SparkConf = {}

\* C16 witness: a load succeeded on a directory that also held an entry which is
\* not loadable although its name contains ".yaml".
C16_Witness ==
    /\ NewReturned /\ ut.err = NilErr
    /\ DOMAIN ut.spark[1].presets = {"pi"}
    /\ \E i \in 1..Len(ut.fs.files) :
           /\ i \notin LoadableFiles
           /\ ut.fs.files[i].readable /\ ut.fs.files[i].doc.parses
           /\ ut.fs.files[i].name = FileNames[4]

\* C19 (as stated): without <sparkHome>/bin/spark-submit New returns an error and
\* the service never serves.
C19_MissingBinaryFatal ==
    (ut.spec = "new" /\ ut.fs.home # "complete") =>
        /\ ut.pc # "start" => ut.err # NilErr
        /\ ut.pc # "serving"

\* C19 (amended): a missing sparkHome directory is fatal at startup, New returns an
\* error and the service never serves; the launcher binary inside an existing
\* sparkHome is not looked at: with a loadable preset New succeeds and hands out
\* the path <sparkHome>/bin/spark-submit.
C19_MissingHomeFatal ==
    ut.spec = "new" =>
        /\ ut.fs.home = "missing" =>
               /\ ut.pc # "start" => (ut.err # NilErr /\ ut.spark = <<>>)
               /\ ut.pc # "serving"
        /\ (/\ ut.fs.home = "nobinary" /\ ut.fs.confDir = "listed"
            /\ LoadableFiles # {} /\ ut.pc # "start") =>
               /\ ut.err = NilErr
               /\ ut.spark[1].binaryPath = binaryPath

\* C19 witness: the process has exited although the preset directory was loadable,
\* because sparkHome does not exist.
C19_Witness ==
    /\ ut.spec = "new" /\ ut.pc = "exited"
    /\ ut.fs.home = "missing" /\ ut.fs.confDir = "listed" /\ LoadableFiles # {}

\* C17: for a registered preset the launcher arguments of a submission are
\* "--master=<master>", "--deploy-mode=cluster", "--name=<presetName>", then one
\* "--conf=<key>=<value>" per sparkConf entry in any order, then the preset's main,
\* then its args in order, and nothing else.
C17_SubmitArgs ==
    \A j \in 1..Len(jobs) :
        LET a == jobs[j].args
            p == presets[jobs[j].preset]
            n == Cardinality(DOMAIN p.SparkConf)
        IN  /\ jobs[j].preset \in DOMAIN presets
            /\ Len(a) = 3 + n + 1 + Len(p.Args)
            /\ a[1] = "--master=" \o master
            /\ a[2] = "--deploy-mode=cluster"
            /\ a[3] = "--name=" \o jobs[j].preset
            /\ { a[3 + i] : i \in 1..n } =
                   { "--conf=" \o k \o "=" \o p.SparkConf[k] : k \in DOMAIN p.SparkConf }
            /\ a[3 + n + 1] = p.Main
            /\ SubSeq(a, 3 + n + 2, Len(a)) = p.Args
            /\ \A q \in JobProcs(j) : procs[q].args = a

\* C17 witness: a submission of the preset with two sparkConf entries whose launcher
\* runs with the second key first.
C17_Witness ==
    \E j \in 1..Len(jobs) :
        /\ jobs[j].preset = "etl"
        /\ JobProcs(j) # {}
        /\ jobs[j].args = <<"--master=k8s://m", "--deploy-mode=cluster", "--name=etl",
                            "--conf=spark.cores=1", "--conf=spark.ns=etl", "etl.py">>

\* C18: the launcher of a Kill or Status call is run with exactly
\* ["--master=<master>", "--<verb>=<namespace>:<name>"], verb "kill" resp. "status",
\* for the namespace and name the facade was called with.
C18_BuildArgs ==
    \A r \in 1..Len(reqs) :
        reqs[r].method \in {"DELETE", "GET"} =>
            \A p \in ReqProcs(r) :
                LET verb == IF reqs[r].method = "DELETE" THEN "kill" ELSE "status"
                    c == reqs[r].called[1]
                IN  /\ procs[p].path = binaryPath
                    /\ Len(procs[p].args) = 2
                    /\ procs[p].args[1] = "--master=" \o master
                    /\ procs[p].args[2] = "--" \o verb \o "=" \o c[2] \o ":" \o c[3]

\* C18 witness: the launcher of a DELETE for ns/job has run.
C18_Witness ==
    \E r \in 1..Len(reqs) :
        /\ reqs[r].method = "DELETE" /\ reqs[r].pc = "done"
        /\ \E p \in ReqProcs(r) :
               /\ procs[p].state = "exited"
               /\ procs[p].args = <<"--master=k8s://m", "--kill=ns:job">>

RECURSIVE Pow(_, _)
Pow(b, e) == IF e = 0 THEN 1 ELSE b * Pow(b, e - 1)

Min(a, b) == IF a <= b THEN a ELSE b

\* C20: the k-th sleep of a call of retry lasts min(initialDelay * mult^(k-1),
\* maxWait), so no sleep is longer than maxWait, for every initialDelay, every
\* multiplier >= 1 and every maxWait, initialDelay > maxWait included.
C20_SleepSchedule ==
    rt.active =>
        \A k \in 1..Len(rt.rs.sleeps) :
            /\ rt.rs.sleeps[k] =
                   Min(rt.rs.initialDelay * Pow(rt.rs.mult, k - 1), rt.rs.maxWait)
            /\ rt.rs.sleeps[k] <= rt.rs.maxWait

\* C21: retry sleeps only between two consecutive attempts: a sleep is always
\* followed by another call of attemptFn, a call of retry that has made n attempts
\* has slept n-1 times, and there is no sleep after the last failed attempt.
C21_SleepsOnlyBetweenAttempts ==
    rt.active =>
        /\ rt.rs.pc = "sleep" => rt.rs.try + 1 < rt.rs.retries
        /\ (rt.rs.pc = "done" /\ rt.rs.calls >= 1) =>
               Len(rt.rs.sleeps) = rt.rs.calls - 1

\* the calls of the closure made so far by the first n submissions of preset p
RECURSIVE CallsOf(_, _)
CallsOf(p, n) ==
    IF n = 0 THEN 0
    ELSE CallsOf(p, n - 1) + (IF jobs[n].preset = p THEN jobs[n].rs.calls ELSE 0)

\* C22: retry_total{preset} is incremented exactly once per attempt of a submission,
\* before the attempt runs: at any moment it counts the finished attempts and the
\* one in progress, and when a submission's loop has ended it has grown by the
\* number of attempts made, which is between 1 and 10.
C22_RetryCounterPerAttempt ==
    /\ \A p \in PresetLabels : retryCounter[p] = CallsOf(p, Len(jobs))
    /\ \A j \in 1..Len(jobs) :
           /\ jobs[j].rs.calls =
                  Len(jobs[j].hist) + (IF jobs[j].rs.pc = "fn" THEN 1 ELSE 0)
           /\ jobs[j].rs.pc = "done" => jobs[j].rs.calls \in 1..SubmitRetries

\* C22 witness: a submission of pi has ended after ten attempts and retry_total{pi}
\* is 10.
C22_Witness ==
    \E j \in 1..Len(jobs) :
        /\ jobs[j].preset = "pi" /\ jobs[j].rs.pc = "done"
        /\ Len(jobs[j].hist) = SubmitRetries
        /\ retryCounter["pi"] = SubmitRetries

\* each accepted POST has a goroutine of its own, which can always take its next
\* step, and whose attempt count, delay and outcome follow from its own attempts
SubmissionsIndependent ==
    /\ \A r \in 1..Len(reqs) :
           /\ reqs[r].called # <<>> /\ reqs[r].preset \in DOMAIN presets =>
                  /\ reqs[r].job \in 1..Len(jobs)
                  /\ jobs[reqs[r].job].req = r
           /\ reqs[r].pc = "dispatched" => ENABLED SubmitReturn(r)
    /\ \A j \in 1..Len(jobs) :
           /\ jobs[j].rs.pc \in {"loop", "sleep"} =>
                  ENABLED (JobAttempt(j) \/ JobExhausted(j))
           /\ (jobs[j].rs.pc = "fn" /\ procs[jobs[j].proc].state = "exited") =>
                  ENABLED JobFnReturn(j)
           /\ jobs[j].rs.calls =
                  Len(jobs[j].hist) + (IF jobs[j].rs.pc = "fn" THEN 1 ELSE 0)
           /\ jobs[j].rs.delay =
                  Min(SubmitInitialDelay * Pow(SubmitMult, jobs[j].rs.try), SubmitMaxWait)
           /\ jobs[j].recorded =
                  IF jobs[j].rs.pc # "done" THEN <<>>
                  ELSE IF \E i \in 1..Len(jobs[j].hist) : jobs[j].hist[i] = "ok"
                       THEN <<"success">>
                       ELSE <<"failure", "success">>
           /\ \A p \in JobProcs(j) : procs[p].args = jobs[j].args

\* a step changes the goroutine, the Cmd and the launcher process of at most one
\* submission
OneSubmissionPerStep ==
    \A j \in 1..Len(jobs) :
        jobs'[j] # jobs[j] =>
            /\ \A k \in 1..Len(jobs) : k # j => jobs'[k] = jobs[k]
            /\ \A p \in 1..Len(procs) : procs[p].owner # <<"job", j>> => procs'[p] = procs[p]

\* C23: concurrent submissions are independent: any two Submit calls, for different
\* presets or the same one, get a background retry loop each, with its own attempt
\* count and delay; none waits for the other, is blocked, ordered or deduplicated
\* by it, and no step or outcome of one loop changes the attempts or the outcome
\* of the other.
C23_SubmissionsIndependent ==
    []SubmissionsIndependent /\ [][OneSubmissionPerStep]_vars

\* C23 witness: two submissions of the same preset have ended, the first after a
\* successful first attempt, the second after ten failed ones.
C23_Witness ==
    /\ Len(jobs) = 2
    /\ jobs[1].preset = "pi" /\ jobs[2].preset = "pi"
    /\ jobs[1].rs.pc = "done" /\ jobs[1].hist = <<"ok">>
    /\ jobs[2].rs.pc = "done" /\ Len(jobs[2].hist) = SubmitRetries
    /\ jobs[2].recorded = <<"failure", "success">>

UnregisteredSubmit ==
    /\ Len(reqs') = Len(reqs) + 1
    /\ reqs'[Len(reqs')].called = << <<"Submit", reqs'[Len(reqs')].preset>> >>
    /\ reqs'[Len(reqs')].preset \notin DOMAIN presets

\* C25: a Submit call for a preset name that is not registered has no effect besides
\* its error return: it starts no background task, runs no launcher process and
\* changes neither retry_total nor spark_exec_total, now or later.
C25_UnregisteredSubmitNoEffect ==
    /\ [][UnregisteredSubmit =>
              /\ reqs'[Len(reqs')].returned /\ reqs'[Len(reqs')].err # NilErr
              /\ UNCHANGED <<presets, spark, debug, jobs, procs, retryCounter,
                             submitCounter, startFails>>
              /\ \A r \in 1..Len(reqs) : reqs'[r] = reqs[r]]_vars
    /\ [](\A r \in 1..Len(reqs) :
              (reqs[r].called # <<>> /\ reqs[r].preset \notin DOMAIN presets) =>
                  /\ \A j \in 1..Len(jobs) : jobs[j].req # r
                  /\ ReqProcs(r) = {}
                  /\ retryCounter[reqs[r].preset] = 0
                  /\ \A l \in {"success", "failure"} :
                         submitCounter[<<reqs[r].preset, l>>] = 0)

\* C25 witness: while a submission of pi is under way and counted, Submit has been
\* called for the unregistered etl and has returned its error.
C25_Witness ==
    /\ Len(reqs) = 2 /\ Len(jobs) = 1
    /\ jobs[1].preset = "pi" /\ retryCounter["pi"] >= 1 /\ jobs[1].rs.pc # "done"
    /\ reqs[2].preset = "etl" /\ "etl" \notin DOMAIN presets
    /\ reqs[2].returned /\ reqs[2].err # NilErr

\* C26: in debug mode the log writer that receives a submission's child output is
\* closed only after the last attempt of the submission has finished: never while
\* the background retry loop is running or has attempts left.
C26_WriterClosedAfterLastAttempt ==
    \A j \in 1..Len(jobs) :
        jobs[j].writer = "closed" => jobs[j].rs.pc = "done"

====
